---- MODULE Spec2Model ----
(***************************************************************************)
(* Subscription intake endpoint of Cloak Exchange:                         *)
(*   POST /api/subscribers  (registerRoutes, server/routes.ts)             *)
(*   over DatabaseStorage (server/storage.ts) and the subscribers table    *)
(*   (shared/schema.ts).                                                   *)
(* Each request is one asynchronous handler invocation; the awaits on the  *)
(* two storage calls are the points where other requests interleave.       *)
(***************************************************************************)
EXTENDS Integers, Sequences, FiniteSets, TLC

\* ------------------------------------------------------------------ bounds
MaxCalls == 3
MaxClock == 1
MaxFairCalls == 2
MaxExtraCalls == 2
MaxMutations == 2
MaxSwaps == 3
MaxEdits == 2

Calls == 1..MaxCalls

\* ----------------------------------------------------------------- strings
\* Email strings are sequences of one-character strings, so that the format
\* rule can look inside them.
EmailA == <<"a","@","e","x","a","m","p","l","e",".","c","o","m">>
EmailUpperA == <<"A","@","e","x","a","m","p","l","e",".","c","o","m">>
NotAnEmail == <<"n","o","t","-","a","n","-","e","m","a","i","l">>

Letters == {"a","A","c","e","i","l","m","n","o","p","t","x"}

IndexesOf(s, ch) == {i \in 1..Len(s) : s[i] = ch}

\* z.string().email(): local@domain, one "@", a non-empty local part that
\* neither starts nor ends with ".", no "..", a domain of at least two
\* labels that each start with a letter, and a final label of two or more
\* letters.
IsEmailFormat(s) ==
    /\ Cardinality(IndexesOf(s, "@")) = 1
    /\ LET at == CHOOSE i \in 1..Len(s) : s[i] = "@"
           dots == {i \in IndexesOf(s, ".") : i > at}
       IN  /\ at > 1
           /\ s[1] # "."
           /\ s[at - 1] \in Letters
           /\ \A i \in 1..(Len(s) - 1) : ~(s[i] = "." /\ s[i + 1] = ".")
           /\ dots # {}
           /\ at + 1 <= Len(s)
           /\ s[at + 1] \in Letters
           /\ \A i \in dots : i < Len(s) /\ s[i + 1] \in Letters
           /\ LET last == CHOOSE i \in dots : \A j \in dots : j <= i
              IN  /\ Len(s) - last >= 2
                  /\ \A i \in (last + 1)..Len(s) : s[i] \in Letters

\* ------------------------------------------------------------ request body
\* A JSON object is a set of fields; a JSON value carries its type.
JString(s) == [t |-> "string", v |-> s]
JNumber(digits) == [t |-> "number", v |-> digits]
Field(n, val) == [name |-> n, val |-> val]

HasField(body, n) == \E f \in body : f.name = n
GetField(body, n) == (CHOOSE f \in body : f.name = n).val

Bodies ==
    { {Field("email", JString(EmailA))},
      {Field("email", JString(EmailUpperA))},
      {Field("email", JString(NotAnEmail))},
      {Field("email", JNumber(<<"1">>))},
      {} }

\* Requests that carry fields besides email, next to the same requests
\* without them.
ExtraBodies ==
    { {Field("email", JString(EmailA))},
      {Field("email", JString(EmailA)), Field("id", JNumber(<<"7">>))},
      {Field("email", JString(EmailUpperA))},
      {Field("email", JString(EmailUpperA)), Field("id", JNumber(<<"7">>)),
       Field("createdAt", JNumber(<<"9">>))} }

\* The number a JSON number of one digit stands for.
NumberOf(digits) == CHOOSE n \in 0..9 : ToString(n) = digits[1]

\* ------------------------------------------------------------------ errors
ZodError(issues) == [name |-> "ZodError", issues |-> issues, code |-> ""]
DatabaseError(code) == [name |-> "DatabaseError", issues |-> <<>>, code |-> code]
UniqueViolationCode == "23505"
ConnectionFailureCode == "08006"

\* Mutant of ParseInput: the schema is used without .pick({email: true}), so
\* an id in the body is part of the parsed input.
ParseInputKeepsId(body) ==
    IF ~HasField(body, "email")
    THEN [ok |-> FALSE, data |-> {},
          issues |-> <<[message |-> "Required", path |-> <<"email">>]>>]
    ELSE IF GetField(body, "email").t # "string"
    THEN [ok |-> FALSE, data |-> {},
          issues |-> <<[message |-> "Expected string, received number",
                        path |-> <<"email">>]>>]
    ELSE IF HasField(body, "id") /\ GetField(body, "id").t = "number"
    THEN [ok |-> TRUE,
          data |-> {[email |-> GetField(body, "email").v,
                     id |-> NumberOf(GetField(body, "id").v)]},
          issues |-> <<>>]
    ELSE [ok |-> TRUE, data |-> {[email |-> GetField(body, "email").v]},
          issues |-> <<>>]

\* insertSubscriberSchema = createInsertSchema(subscribers).pick({email}):
\* an object with one required string field, unknown keys stripped.  The
\* column is text(), so the generated rule is z.string() with no format.
ParseInput(body) ==
    IF ~HasField(body, "email")
    THEN [ok |-> FALSE, data |-> {},
          issues |-> <<[message |-> "Required", path |-> <<"email">>]>>]
    ELSE IF GetField(body, "email").t # "string"
    THEN [ok |-> FALSE, data |-> {},
          issues |-> <<[message |-> "Expected string, received number",
                        path |-> <<"email">>]>>]
    ELSE [ok |-> TRUE, data |-> {[email |-> GetField(body, "email").v]},
          issues |-> <<>>]

\* Array.prototype.join('.')
RECURSIVE JoinDot(_)
JoinDot(path) ==
    IF Len(path) = 0 THEN ""
    ELSE IF Len(path) = 1 THEN path[1]
    ELSE path[1] \o "." \o JoinDot(Tail(path))

\* ------------------------------------------------------------------- state
VARIABLES
    store,      \* rows of the subscribers table
    nextId,     \* next value of the serial sequence behind subscribers.id
    clock,      \* the latest value the database's now() has returned
    calls,      \* one record per request to POST /api/subscribers
    client,     \* the useCreateSubscriber mutation of one page
    landing,    \* the state of the Landing component
    swap,       \* the state and the pending timers of SimulatedSwap
    url         \* one call of buildUrl

vars == <<store, nextId, clock, calls, client, landing, swap, url>>

Stages == {"Received", "Validated", "Checked"}
Outcomes == {"Created", "Conflicted", "ValidationFailed", "InternalFailed"}

NoError == [name |-> "", issues |-> <<>>, code |-> ""]

\* A request that has not arrived yet.
IdleCall ==
    [pc |-> "Idle", body |-> {}, input |-> {}, existing |-> {},
     err |-> NoError, responses |-> <<>>, stages |-> <<>>,
     lookups |-> 0, inserts |-> 0]

Terminal(c) == calls[c].pc \in Outcomes
InFlight(c) == calls[c].pc \in Stages

NoClientError == [name |-> "", message |-> ""]

\* The mutation of useCreateSubscriber before the first mutate(): status,
\* variables, failureCount, error and data are the mutation's state; pc is
\* the position inside mutationFn; toasts are the toasts shown so far; sent
\* and answers are the request bodies and responses of the current mutate().
IdleClient ==
    [status |-> "idle", pc |-> "idle", variables |-> {}, failureCount |-> 0,
     error |-> NoClientError, data |-> {}, toasts |-> <<>>,
     sent |-> <<>>, answers |-> <<>>, requests |-> 0, mutations |-> 0]

\* Landing: useState("")
InitialLanding == [email |-> <<>>]

\* SimulatedSwap: the useState initial values; timers are the pending
\* setTimeout callbacks in the order they were set, swaps and edits count
\* the handler invocations so far.
InitialSwap ==
    [swapping |-> FALSE, complete |-> FALSE,
     fromToken |-> "SOL", toToken |-> "USDC", isRotating |-> FALSE,
     fromAmount |-> <<"4","2",".","5">>, toAmount |-> <<"4","2","0","0">>,
     timers |-> <<>>, swaps |-> 0, edits |-> 0]

\* buildUrl has not been called.
IdleUrl == [pc |-> "idle", path |-> <<>>, params |-> <<>>, url |-> <<>>, i |-> 0]

Init ==
    /\ store = {}
    /\ nextId = 1
    /\ clock = 0
    /\ calls = [c \in Calls |-> IdleCall]
    /\ client = IdleClient
    /\ landing = InitialLanding
    /\ swap = InitialSwap
    /\ url = IdleUrl

\* ----------------------------------------------------------------- storage
\* Mutant of DbSelect: the where() clause is missing.
DbSelectAll(rows, email) == rows

\* Mutant of DbSelect: the filter uses ne() where eq() is meant.
DbSelectOthers(rows, email) == {r \in rows : r.email # email}

\* lower(): the ASCII letters of the strings in use.
LowerChar(ch) == IF ch = "A" THEN "a" ELSE ch
Lower(s) == [i \in 1..Len(s) |-> LowerChar(s[i])]

\* Mutant of DbSelect: the lookup compares lower(email).
DbSelectIgnoreCase(rows, email) == {r \in rows : Lower(r.email) = Lower(email)}

\* db.select().from(subscribers).where(eq(subscribers.email, email))
DbSelect(rows, email) == {r \in rows : r.email = email}

\* Mutant of UniqueViolation: the column is declared without .unique().
UniqueViolationOff(rows, email) == FALSE

\* email: text("email").notNull().unique()
UniqueViolation(rows, email) == \E r \in rows : r.email = email

\* Mutant of NewRow: the id is not taken from the sequence.
NewRowFixedId(id, email, now) == [id |-> 1, email |-> email, createdAt |-> now]

\* id: serial primary key, createdAt: defaultNow()
NewRow(id, email, now) == [id |-> id, email |-> email, createdAt |-> now]

\* db.insert(subscribers).values(values).returning(): a column that values
\* does not give takes its default, the next sequence value or now().
InsertValues(values, seq, now) ==
    NewRow(IF "id" \in DOMAIN values THEN values.id ELSE seq,
           values.email,
           IF "createdAt" \in DOMAIN values THEN values.createdAt ELSE now)

\* ----------------------------------------------------------------- handler
\* Mutant of ConflictResponse: the duplicate is answered as a bad request.
ConflictResponseBadRequest == [status |-> 400, body |-> [message |-> "Email already subscribed"]]

ConflictResponse == [status |-> 409, body |-> [message |-> "Email already subscribed"]]
CreatedResponse(row) == [status |-> 201, body |-> row]

\* Mutant of CatchBlock: an error that is no ZodError is dropped, neither
\* answered nor re-thrown.
CatchBlockSwallows(err) ==
    IF err.name = "ZodError"
    THEN [rethrow |-> FALSE,
          response |-> <<[status |-> 400,
                          body |-> [message |-> err.issues[1].message,
                                    field |-> JoinDot(err.issues[1].path)]]>>]
    ELSE [rethrow |-> FALSE, response |-> <<>>]

\* catch (err): a ZodError is answered with 400, anything else is re-thrown.
CatchBlock(err) ==
    IF err.name = "ZodError"
    THEN [rethrow |-> FALSE,
          response |-> <<[status |-> 400,
                          body |-> [message |-> err.issues[1].message,
                                    field |-> JoinDot(err.issues[1].path)]]>>]
    ELSE [rethrow |-> TRUE, response |-> <<>>]

\* The application's error middleware: answers a re-thrown error with 500.
ErrorMiddleware(err) == [status |-> 500, body |-> [message |-> "Internal server error"]]

\* The call record after err was thrown inside the try block.
Thrown(call, err) ==
    LET h == CatchBlock(err) IN
    IF h.rethrow
    THEN [call EXCEPT !.err = err,
                      !.responses = Append(@, ErrorMiddleware(err)),
                      !.pc = "InternalFailed"]
    ELSE [call EXCEPT !.err = err,
                      !.responses = @ \o h.response,
                      !.pc = "ValidationFailed"]

\* A request arrives; requests are numbered in their order of arrival.
ReceiveCall(c, body) ==
    /\ calls[c].pc = "Idle"
    /\ \A d \in Calls : d < c => calls[d].pc # "Idle"
    /\ calls' = [calls EXCEPT ![c] =
                    [@ EXCEPT !.pc = "Received",
                              !.body = body,
                              !.stages = <<"Received">>]]
    /\ UNCHANGED <<store, nextId, clock, landing, swap, url>>

\* ... sent by some caller other than the page's mutation
Receive(c, body) ==
    /\ ReceiveCall(c, body)
    /\ UNCHANGED <<client, landing, swap, url>>

\* Mutant of Validate: the storage is queried before the body is parsed.
ValidateAfterLookup(c) ==
    /\ calls[c].pc = "Received"
    /\ LET r == ParseInput(calls[c].body) IN
       calls' = [calls EXCEPT ![c] =
                    IF r.ok
                    THEN [@ EXCEPT !.pc = "Validated",
                                   !.input = r.data,
                                   !.stages = Append(@, "Validated")]
                    ELSE Thrown([@ EXCEPT !.lookups = @ + 1], ZodError(r.issues))]
    /\ UNCHANGED <<store, nextId, clock, client, landing, swap, url>>

\* Step 1: api.subscribers.create.input.parse(req.body)
Validate(c) ==
    /\ calls[c].pc = "Received"
    /\ LET r == ParseInput(calls[c].body) IN
       calls' = [calls EXCEPT ![c] =
                    IF r.ok
                    THEN [@ EXCEPT !.pc = "Validated",
                                   !.input = r.data,
                                   !.stages = Append(@, "Validated")]
                    ELSE Thrown(@, ZodError(r.issues))]
    /\ UNCHANGED <<store, nextId, clock, client, landing, swap, url>>

Input(c) == CHOOSE i \in calls[c].input : TRUE
InputEmail(c) == Input(c).email

\* Step 2: const existing = await storage.getSubscriberByEmail(input.email)
GetSubscriberByEmail(c) ==
    /\ calls[c].pc = "Validated"
    /\ calls' = [calls EXCEPT ![c] =
                    [@ EXCEPT !.pc = "Checked",
                              !.existing = DbSelect(store, InputEmail(c)),
                              !.lookups = @ + 1,
                              !.stages = Append(@, "Checked")]]
    /\ UNCHANGED <<store, nextId, clock, client, landing, swap, url>>

\* Mutant of GetSubscriberByEmailRejects: a rejected lookup is tried again.
GetSubscriberByEmailRetried(c) ==
    /\ calls[c].pc = "Validated"
    /\ calls[c].lookups < 2
    /\ calls' = [calls EXCEPT ![c] = [@ EXCEPT !.lookups = @ + 1]]
    /\ UNCHANGED <<store, nextId, clock, client, landing, swap, url>>

\* ... the query rejects (database unavailable)
GetSubscriberByEmailRejects(c) ==
    /\ calls[c].pc = "Validated"
    /\ calls' = [calls EXCEPT ![c] =
                    Thrown([@ EXCEPT !.lookups = @ + 1],
                           DatabaseError(ConnectionFailureCode))]
    /\ UNCHANGED <<store, nextId, clock, client, landing, swap, url>>

\* Mutant of Conflict: the 409 is sent without return, so the handler goes
\* on to createSubscriber.
ConflictFallsThrough(c) ==
    /\ calls[c].pc = "Checked"
    /\ calls[c].existing # {}
    /\ calls' = [calls EXCEPT ![c] =
                    [@ EXCEPT !.existing = {},
                              !.responses = Append(@, ConflictResponse)]]
    /\ UNCHANGED <<store, nextId, clock, client, landing, swap, url>>

\* if (existing) return res.status(409).json(...)
Conflict(c) ==
    /\ calls[c].pc = "Checked"
    /\ calls[c].existing # {}
    /\ calls' = [calls EXCEPT ![c] =
                    [@ EXCEPT !.pc = "Conflicted",
                              !.responses = Append(@, ConflictResponse)]]
    /\ UNCHANGED <<store, nextId, clock, client, landing, swap, url>>

\* Mutant of CreateSubscriber: the insert is an upsert (onConflictDoUpdate)
\* that replaces the row of a stored email.
CreateSubscriberUpsert(c, now) ==
    /\ calls[c].pc = "Checked"
    /\ calls[c].existing = {}
    /\ now >= clock
    /\ nextId' = nextId + 1
    /\ clock' = now
    /\ LET row == NewRow(nextId, InputEmail(c), now) IN
       /\ store' = (store \ DbSelect(store, InputEmail(c))) \cup {row}
       /\ calls' = [calls EXCEPT ![c] =
                       [@ EXCEPT !.pc = "Created",
                                 !.inserts = @ + 1,
                                 !.responses = Append(@, CreatedResponse(row))]]
    /\ UNCHANGED <<client, landing, swap, url>>

\* Step 3 and 4: const subscriber = await storage.createSubscriber(input);
\* res.status(201).json(subscriber).  The sequence value is consumed before
\* the unique index is checked, so a rejected insert uses up an id.  now is
\* the database's time when the statement runs; time never runs backwards.
CreateSubscriber(c, now) ==
    /\ calls[c].pc = "Checked"
    /\ calls[c].existing = {}
    /\ now >= clock
    /\ nextId' = nextId + 1
    /\ clock' = now
    /\ IF UniqueViolation(store, InputEmail(c))
       THEN /\ store' = store
            /\ calls' = [calls EXCEPT ![c] =
                            Thrown([@ EXCEPT !.inserts = @ + 1],
                                   DatabaseError(UniqueViolationCode))]
       ELSE LET row == InsertValues(Input(c), nextId, now) IN
            /\ store' = store \cup {row}
            /\ calls' = [calls EXCEPT ![c] =
                            [@ EXCEPT !.pc = "Created",
                                      !.inserts = @ + 1,
                                      !.responses = Append(@, CreatedResponse(row))]]
    /\ UNCHANGED <<client, landing, swap, url>>

\* Mutant of CreateSubscriberRejects: createSubscriber throws after the row
\* was written.
CreateSubscriberRejectsAfterWrite(c) ==
    /\ calls[c].pc = "Checked"
    /\ calls[c].existing = {}
    /\ ~UniqueViolation(store, InputEmail(c))
    /\ store' = store \cup {NewRow(nextId, InputEmail(c), clock)}
    /\ nextId' = nextId + 1
    /\ calls' = [calls EXCEPT ![c] =
                    Thrown([@ EXCEPT !.inserts = @ + 1],
                           DatabaseError(ConnectionFailureCode))]
    /\ UNCHANGED <<clock, client, landing, swap, url>>

\* ... the insert rejects for a reason other than duplication
CreateSubscriberRejects(c) ==
    /\ calls[c].pc = "Checked"
    /\ calls[c].existing = {}
    /\ calls' = [calls EXCEPT ![c] =
                    Thrown([@ EXCEPT !.inserts = @ + 1],
                           DatabaseError(ConnectionFailureCode))]
    /\ UNCHANGED <<store, nextId, clock, client, landing, swap, url>>

Times == 0..MaxClock

HandlerStep(c) ==
    \/ Validate(c)
    \/ GetSubscriberByEmail(c)
    \/ GetSubscriberByEmailRejects(c)
    \/ Conflict(c)
    \/ \E now \in Times : CreateSubscriber(c, now)
    \/ CreateSubscriberRejects(c)

Next ==
    \/ \E c \in Calls, body \in Bodies : Receive(c, body)
    \/ \E c \in Calls : Validate(c)
    \/ \E c \in Calls : GetSubscriberByEmail(c)
    \/ \E c \in Calls : GetSubscriberByEmailRejects(c)
    \/ \E c \in Calls : Conflict(c)
    \/ \E c \in Calls, now \in Times : CreateSubscriber(c, now)
    \/ \E c \in Calls : CreateSubscriberRejects(c)

Spec == Init /\ [][Next]_vars

\* Every started handler invocation is eventually resumed: the event loop
\* runs each continuation and every storage promise settles.  Requests need
\* not arrive.  The progress of a request is checked with MaxFairCalls
\* requests in flight.
ReceiveFair(c, body) ==
    /\ c <= MaxFairCalls
    /\ Receive(c, body)

FairNext ==
    \/ \E c \in Calls, body \in Bodies : ReceiveFair(c, body)
    \/ \E c \in Calls : HandlerStep(c)

FairSpec ==
    /\ Init
    /\ [][FairNext]_vars
    /\ \A c \in Calls : WF_vars(HandlerStep(c))

\* Requests issued one after another: the next one is sent only when every
\* earlier one has been answered.
ReceiveAfter(c, body) ==
    /\ \A d \in Calls : ~InFlight(d)
    /\ Receive(c, body)

SeqNext ==
    \/ \E c \in Calls, body \in Bodies : ReceiveAfter(c, body)
    \/ \E c \in Calls : HandlerStep(c)

SeqSpec == Init /\ [][SeqNext]_vars

\* Requests with and without extra fields.
ReceiveExtra(c, body) ==
    /\ c <= MaxExtraCalls
    /\ Receive(c, body)

ExtraNext ==
    \/ \E c \in Calls, body \in ExtraBodies : ReceiveExtra(c, body)
    \/ \E c \in Calls : HandlerStep(c)

ExtraSpec == Init /\ [][ExtraNext]_vars

\* Simultaneous requests: every request arrives before any has been
\* answered, so any two of them overlap.
ReceiveDuring(c, body) ==
    /\ \A d \in Calls : ~Terminal(d)
    /\ Receive(c, body)

ConcNext ==
    \/ \E c \in Calls, body \in Bodies : ReceiveDuring(c, body)
    \/ \E c \in Calls : HandlerStep(c)

ConcSpec == Init /\ [][ConcNext]_vars

\* ------------------------------------------------------------------ client
\* queryClient: defaultOptions.mutations.retry
MutationRetry == 1

ClientError(name, message) == [name |-> name, message |-> message]

\* ZodError.message: the issues, serialised.
ZodMessage(issues) ==
    "[{message: " \o issues[1].message \o ", path: "
        \o JoinDot(issues[1].path) \o "}]"

\* Mutant of RequestBody: the object is passed to fetch without
\* JSON.stringify, so no field of it arrives.
RequestBodyUnserialized(validated) == {}

\* body: JSON.stringify(validated), read back by express.json().
RequestBody(validated) ==
    {Field(k, JString(validated[k])) : k \in DOMAIN validated}

\* Mutant of HandleResponse: every response that is not ok gives the
\* generic error.
HandleResponseGeneric(res) ==
    IF res.status \in 200..299
    THEN [ok |-> TRUE, data |-> {res.body}, error |-> NoClientError]
    ELSE [ok |-> FALSE, data |-> {},
          error |-> ClientError("Error", "Failed to subscribe")]

\* mutationFn after fetch: the parsed body for an ok response, otherwise the
\* Error it throws.
HandleResponse(res) ==
    IF res.status \in 200..299
    THEN [ok |-> TRUE, data |-> {res.body}, error |-> NoClientError]
    ELSE IF res.status = 400
    THEN [ok |-> FALSE, data |-> {},
          error |-> ClientError("Error", res.body.message)]
    ELSE IF res.status = 409
    THEN [ok |-> FALSE, data |-> {},
          error |-> ClientError("Error", res.body.message)]
    ELSE [ok |-> FALSE, data |-> {},
          error |-> ClientError("Error", "Failed to subscribe")]

SuccessToast ==
    [title |-> "Subscribed",
     description |-> "You've been added to our early access list.",
     variant |-> "default"]

ErrorToast(error) ==
    [title |-> "Error", description |-> error.message,
     variant |-> "destructive"]

\* mutate(data): a new mutation replaces the state of the previous one.
StartMutation(cl, data) ==
    [cl EXCEPT !.status = "pending", !.pc = "run", !.variables = data,
               !.failureCount = 0, !.error = NoClientError, !.data = {},
               !.sent = <<>>, !.answers = <<>>, !.mutations = @ + 1]

\* mutationFn threw: it is run again while fewer than retry attempts have
\* failed, whatever the error; otherwise the mutation fails and onError runs.
AttemptFailed(cl, error) ==
    IF cl.failureCount < MutationRetry
    THEN [cl EXCEPT !.failureCount = @ + 1, !.pc = "run"]
    ELSE [cl EXCEPT !.failureCount = @ + 1, !.status = "error",
                    !.pc = "idle", !.error = error,
                    !.toasts = Append(@, ErrorToast(error))]

\* mutationFn returned: the mutation succeeds and onSuccess runs.
AttemptSucceeded(cl, data) ==
    [cl EXCEPT !.status = "success", !.pc = "idle", !.data = data,
               !.toasts = Append(@, SuccessToast)]

\* Mutant of AttemptStarted: the data is sent as it is, without
\* input.parse(data).
AttemptStartedUnchecked(cl) ==
    [cl EXCEPT !.pc = "fetching",
               !.sent = Append(@, cl.variables),
               !.requests = @ + 1]

\* mutationFn up to fetch: validate, then send.
AttemptStarted(cl) ==
    LET r == ParseInput(cl.variables) IN
    IF ~r.ok
    THEN AttemptFailed(cl, ClientError("ZodError", ZodMessage(r.issues)))
    ELSE [cl EXCEPT !.pc = "fetching",
                    !.sent = Append(@, RequestBody(CHOOSE v \in r.data : TRUE)),
                    !.requests = @ + 1]

\* mutationFn from the response on.
Responded(cl, res) ==
    LET r == HandleResponse(res)
        heard == [cl EXCEPT !.answers = Append(@, res)]
    IN  IF r.ok THEN AttemptSucceeded(heard, r.data)
        ELSE AttemptFailed(heard, r.error)

Mutate(data) ==
    /\ client.pc = "idle"
    /\ client.mutations < MaxMutations
    /\ client' = StartMutation(client, data)
    /\ UNCHANGED <<store, nextId, clock, calls, landing, swap, url>>

MutationFn ==
    /\ client.pc = "run"
    /\ client' = AttemptStarted(client)
    /\ UNCHANGED <<store, nextId, clock, calls, landing, swap, url>>

FetchResolves(res) ==
    /\ client.pc = "fetching"
    /\ client' = Responded(client, res)
    /\ UNCHANGED <<store, nextId, clock, calls, landing, swap, url>>

\* The page alone: fetch resolves with any response of the endpoint.
Responses ==
    { CreatedResponse(NewRow(1, EmailA, 0)),
      CatchBlock(ZodError(ParseInput({}).issues)).response[1],
      ConflictResponse,
      ErrorMiddleware(DatabaseError(ConnectionFailureCode)) }

ClientNext ==
    \/ \E data \in Bodies : Mutate(data)
    \/ MutationFn
    \/ \E res \in Responses : FetchResolves(res)

ClientSpec == Init /\ [][ClientNext]_vars

\* The page against the endpoint: every request is the page's, the k-th
\* request sent is call k, and a mutate() starts only when its attempts
\* have calls left.
MutateOnline(data) ==
    /\ client.requests + MutationRetry + 1 <= MaxCalls
    /\ Mutate(data)

MutationFnOnline ==
    /\ client.pc = "run"
    /\ client' = AttemptStarted(client)
    /\ IF ParseInput(client.variables).ok
       THEN ReceiveCall(client.requests + 1,
                        client'.sent[Len(client'.sent)])
       ELSE UNCHANGED <<store, nextId, clock, calls, landing, swap, url>>

FetchResolvesOnline ==
    /\ client.pc = "fetching"
    /\ Terminal(client.requests)
    /\ FetchResolves(Head(calls[client.requests].responses))

OnlineNext ==
    \/ \E data \in Bodies : MutateOnline(data)
    \/ MutationFnOnline
    \/ FetchResolvesOnline
    \/ \E c \in Calls : HandlerStep(c)

OnlineSpec == Init /\ [][OnlineNext]_vars

\* ----------------------------------------------------------------- landing
\* What the visitor may type into the email field.
Typed == {<<>>, EmailA, EmailUpperA, NotAnEmail}

IsPending == client.status = "pending"

\* Mutant of FormDisabled: the input and the button are never disabled.
FormDisabledNever == FALSE

\* disabled={createSubscriber.isPending}, on the input and on the button
FormDisabled == IsPending

\* Mutant of EmailAfter: the field is cleared when the mutation settles,
\* whatever its result.
EmailAfterSettled(cl, email) ==
    IF cl.status \in {"success", "error"} THEN <<>> ELSE email

\* mutate(..., {onSuccess: () => setEmail("")})
EmailAfter(cl, email) == IF cl.status = "success" THEN <<>> ELSE email

\* onChange: setEmail(e.target.value)
SetEmail(text) ==
    /\ ~FormDisabled
    /\ landing.email # text
    /\ landing' = [landing EXCEPT !.email = text]
    /\ UNCHANGED <<store, nextId, clock, calls, client, swap, url>>

\* onSubmit: handleSubscribe
HandleSubscribe ==
    /\ ~FormDisabled
    /\ client.mutations < MaxMutations
    /\ IF landing.email = <<>>
       THEN UNCHANGED client
       ELSE client' = StartMutation(client,
                          {Field("email", JString(landing.email))})
    /\ UNCHANGED <<store, nextId, clock, calls, landing, swap, url>>

\* The response arrives; onSuccess of the hook and of the mutate() call run.
FetchResolvesForm(res) ==
    /\ client.pc = "fetching"
    /\ client' = Responded(client, res)
    /\ landing' = [landing EXCEPT !.email = EmailAfter(client', @)]
    /\ UNCHANGED <<store, nextId, clock, calls, swap, url>>

\* fetch rejects: the request did not complete.
FetchRejects ==
    /\ client.pc = "fetching"
    /\ client' = AttemptFailed(client, ClientError("TypeError", "Failed to fetch"))
    /\ UNCHANGED <<store, nextId, clock, calls, landing, swap, url>>

FetchSettles ==
    \/ \E res \in Responses : FetchResolvesForm(res)
    \/ FetchRejects

LandingNext ==
    \/ \E text \in Typed : SetEmail(text)
    \/ HandleSubscribe
    \/ MutationFn
    \/ FetchSettles

LandingSpec == Init /\ [][LandingNext]_vars

\* mutationFn runs once the mutation is started or its retry is due, and
\* every fetch settles.
LandingFairSpec ==
    /\ Init
    /\ [][LandingNext]_vars
    /\ WF_vars(MutationFn)
    /\ WF_vars(FetchSettles)

\* ----------------------------------------------------------- SimulatedSwap
\* Amounts are strings, kept as sequences of one-character strings; numbers
\* are exact fractions n/d with d > 0.
Tokens == <<"SOL", "USDC", "BONK", "JUP", "RAY", "ORCA">>

\* tokenPrices, relative to USDC
TokenPrices ==
    [SOL |-> [n |-> 100, d |-> 1], USDC |-> [n |-> 1, d |-> 1],
     BONK |-> [n |-> 1, d |-> 100000], JUP |-> [n |-> 17, d |-> 20],
     RAY |-> [n |-> 3, d |-> 2], ORCA |-> [n |-> 6, d |-> 5]]

\* tokenPrices[token] || 1
PriceOf(token) ==
    IF token \in DOMAIN TokenPrices THEN TokenPrices[token]
    ELSE [n |-> 1, d |-> 1]

DigitChars == {"0","1","2","3","4","5","6","7","8","9"}
DigitValue(ch) == CHOOSE n \in 0..9 : ToString(n) = ch

RECURSIVE Gcd(_, _)
Gcd(a, b) == IF b = 0 THEN a ELSE Gcd(b, a % b)

\* The longest prefix of s made of digits.
RECURSIVE DigitsPrefix(_)
DigitsPrefix(s) ==
    IF Len(s) = 0 \/ s[1] \notin DigitChars THEN <<>>
    ELSE <<s[1]>> \o DigitsPrefix(Tail(s))

RECURSIVE DropTrailingZeros(_)
DropTrailingZeros(s) ==
    IF Len(s) > 0 /\ s[Len(s)] = "0"
    THEN DropTrailingZeros(SubSeq(s, 1, Len(s) - 1))
    ELSE s

RECURSIVE DropLeadingZeros(_)
DropLeadingZeros(s) ==
    IF Len(s) > 0 /\ s[1] = "0" THEN DropLeadingZeros(Tail(s)) ELSE s

RECURSIVE IntToChars(_)
IntToChars(n) ==
    IF n < 10 THEN <<ToString(n)>>
    ELSE IntToChars(n \div 10) \o <<ToString(n % 10)>>

\* parseFloat: an optional sign, digits, an optional "." with digits; what
\* follows the longest such prefix is ignored, and NaN when the prefix has
\* no digit.  The number is whole.frac, both in decimal digits.
ParseFloat(s) ==
    LET signed == Len(s) > 0 /\ s[1] \in {"-", "+"}
        body == IF signed THEN Tail(s) ELSE s
        whole == DigitsPrefix(body)
        rest == SubSeq(body, Len(whole) + 1, Len(body))
        frac == IF Len(rest) > 0 /\ rest[1] = "."
                THEN DigitsPrefix(Tail(rest))
                ELSE <<>>
    IN  IF Len(whole) = 0 /\ Len(frac) = 0
        THEN [nan |-> TRUE, neg |-> FALSE, whole |-> <<>>, frac |-> <<>>]
        ELSE [nan |-> FALSE,
              neg |-> signed /\ s[1] = "-",
              whole |-> DropLeadingZeros(whole),
              frac |-> DropTrailingZeros(frac)]

\* a * b of two fractions of small numbers, in lowest terms.
Times2(a, b) ==
    LET g1 == Gcd(a.n, b.d)
        g2 == Gcd(b.n, a.d)
    IN  [n |-> (a.n \div g1) * (b.n \div g2),
         d |-> (a.d \div g2) * (b.d \div g1)]

Reduced(a) == LET g == Gcd(a.n, a.d) IN [n |-> a.n \div g, d |-> a.d \div g]
Inverse(a) == [n |-> a.d, d |-> a.n]

Zeros(k) == [i \in 1..k |-> "0"]

\* The decimal digits of ds * m + carry, for a number ds given by its digits.
RECURSIVE TimesSmall(_, _, _)
TimesSmall(ds, m, carry) ==
    IF Len(ds) = 0
    THEN IF carry = 0 THEN <<>> ELSE IntToChars(carry)
    ELSE LET t == DigitValue(ds[Len(ds)]) * m + carry
         IN  TimesSmall(SubSeq(ds, 1, Len(ds) - 1), m, t \div 10)
             \o <<ToString(t % 10)>>

\* ds divided by m: the digits of the quotient, as many as ds has, and the
\* remainder.
RECURSIVE DivideSmall(_, _)
DivideSmall(ds, m) ==
    IF Len(ds) = 0 THEN [q |-> <<>>, r |-> 0]
    ELSE LET front == DivideSmall(SubSeq(ds, 1, Len(ds) - 1), m)
             t == 10 * front.r + DigitValue(ds[Len(ds)])
         IN  [q |-> front.q \o <<ToString(t \div m)>>, r |-> t % m]

RECURSIVE PlusOne(_)
PlusOne(ds) ==
    IF Len(ds) = 0 THEN <<"1">>
    ELSE IF ds[Len(ds)] = "9"
    THEN PlusOne(SubSeq(ds, 1, Len(ds) - 1)) \o <<"0">>
    ELSE SubSeq(ds, 1, Len(ds) - 1)
         \o <<ToString(DigitValue(ds[Len(ds)]) + 1)>>

RECURSIVE PadZeros(_, _)
PadZeros(s, k) == IF Len(s) >= k THEN s ELSE PadZeros(<<"0">> \o s, k)

\* x * rate * 10^k for x = whole.frac, as [q, lo, r]: the digits q of its
\* whole part, the digits lo that follow them and whether a remainder r of
\* the division by rate.d is left.
Scaled(x, rate, k) ==
    LET f == Len(x.frac)
        product == TimesSmall(x.whole \o x.frac \o Zeros(k), rate.n, 0)
        quotient == DivideSmall(PadZeros(product, f + 1), rate.d)
        cut == Len(quotient.q) - f
    IN  [q |-> DropLeadingZeros(SubSeq(quotient.q, 1, cut)),
         lo |-> SubSeq(quotient.q, cut + 1, Len(quotient.q)),
         r |-> quotient.r, d |-> rate.d]

\* Number.prototype.toFixed(k) of x * rate: k digits after the point, the
\* last one rounded to nearest, half up.
ToFixed(x, rate, k) ==
    LET scaled == Scaled(x, rate, k)
        up == IF Len(scaled.lo) > 0
              THEN DigitValue(scaled.lo[1]) >= 5
              ELSE scaled.r >= scaled.d - scaled.r
        digits == PadZeros(IF up THEN PlusOne(scaled.q) ELSE scaled.q, k + 1)
    IN  SubSeq(digits, 1, Len(digits) - k)
        \o <<".">>
        \o SubSeq(digits, Len(digits) - k + 1, Len(digits))

\* calculateToAmount: "0" unless the amount parses to a number above zero,
\* otherwise amount * fromPrice / toPrice with six digits after the point
\* below 1 and two from 1 on.  The arithmetic is exact.
calculateToAmount(amount, from, to) ==
    LET numAmount == ParseFloat(amount)
        rate == Times2(Reduced(PriceOf(from)), Inverse(Reduced(PriceOf(to))))
        belowOne == Scaled(numAmount, rate, 0).q = <<>>
    IN  IF numAmount.nan \/ numAmount.neg
           \/ (numAmount.whole = <<>> /\ numAmount.frac = <<>>)
        THEN <<"0">>
        ELSE ToFixed(numAmount, rate, IF belowOne THEN 6 ELSE 2)

\* setTimeout delays, in milliseconds
SwapDelay == 2000
CompleteDelay == 3000
RotateDelay == 300

Timer(kind, delay, id) == [kind |-> kind, delay |-> delay, id |-> id]

\* Timers fire in the order they fall due: the j-th pending timer can be
\* the next to fire only if its delay is shorter than that of every timer
\* set before it.
CanFire(timers, j) ==
    /\ j \in 1..Len(timers)
    /\ \A i \in 1..(j - 1) : timers[j].delay < timers[i].delay

Without(timers, j) ==
    SubSeq(timers, 1, j - 1) \o SubSeq(timers, j + 1, Len(timers))

\* What the visitor may type into the amount field.
AmountsTyped ==
    { <<>>, <<"0">>, <<"-","1">>, <<"a","b","c">>, <<"1">>,
      <<"4","2",".","5">> }

TokenSet == {Tokens[i] : i \in 1..Len(Tokens)}

\* handleSwap: setSwapping(true) and the first setTimeout.
handleSwap ==
    /\ swap.swaps < MaxSwaps
    /\ swap' = [swap EXCEPT !.swapping = TRUE,
                            !.timers = Append(@, Timer("swap", SwapDelay, swap.swaps + 1)),
                            !.swaps = @ + 1]
    /\ UNCHANGED <<store, nextId, clock, calls, client, landing, url>>

\* The first timer of an invocation fires: setSwapping(false),
\* setComplete(true) and the second setTimeout.
SwapTimerFires(j) ==
    /\ CanFire(swap.timers, j)
    /\ swap.timers[j].kind = "swap"
    /\ swap' = [swap EXCEPT !.swapping = FALSE,
                            !.complete = TRUE,
                            !.timers = Append(Without(@, j),
                                              Timer("complete", CompleteDelay,
                                                    swap.timers[j].id))]
    /\ UNCHANGED <<store, nextId, clock, calls, client, landing, url>>

\* The second timer of an invocation fires: setComplete(false).
CompleteTimerFires(j) ==
    /\ CanFire(swap.timers, j)
    /\ swap.timers[j].kind = "complete"
    /\ swap' = [swap EXCEPT !.complete = FALSE, !.timers = Without(@, j)]
    /\ UNCHANGED <<store, nextId, clock, calls, client, landing, url>>

\* Mutant of SwappedTokens: the amounts stay where they are.
SwappedTokensOnly(sw) ==
    [sw EXCEPT !.fromToken = sw.toToken, !.toToken = sw.fromToken]

\* handleSwapTokens, the four setters after tempToken and tempAmount.
SwappedTokens(sw) ==
    [sw EXCEPT !.fromToken = sw.toToken, !.toToken = sw.fromToken,
               !.fromAmount = sw.toAmount, !.toAmount = sw.fromAmount]

handleSwapTokens ==
    /\ swap.edits < MaxEdits
    /\ swap' = [SwappedTokens(swap) EXCEPT
                    !.isRotating = TRUE,
                    !.timers = Append(@, Timer("rotate", RotateDelay, swap.edits + 1)),
                    !.edits = @ + 1]
    /\ UNCHANGED <<store, nextId, clock, calls, client, landing, url>>

\* setTimeout(() => setIsRotating(false), 300)
RotateTimerFires(j) ==
    /\ CanFire(swap.timers, j)
    /\ swap.timers[j].kind = "rotate"
    /\ swap' = [swap EXCEPT !.isRotating = FALSE, !.timers = Without(@, j)]
    /\ UNCHANGED <<store, nextId, clock, calls, client, landing, url>>

handleFromAmountChange(value) ==
    /\ swap.edits < MaxEdits
    /\ swap' = [swap EXCEPT
                    !.fromAmount = value,
                    !.toAmount = calculateToAmount(value, swap.fromToken, swap.toToken),
                    !.edits = @ + 1]
    /\ UNCHANGED <<store, nextId, clock, calls, client, landing, url>>

\* Mutant of handleFromTokenChange: the amount is calculated before the
\* new token is taken.
handleFromTokenChangeStale(token) ==
    /\ swap.edits < MaxEdits
    /\ swap' = [swap EXCEPT
                    !.fromToken = token,
                    !.toAmount = calculateToAmount(swap.fromAmount, swap.fromToken, swap.toToken),
                    !.edits = @ + 1]
    /\ UNCHANGED <<store, nextId, clock, calls, client, landing, url>>

handleFromTokenChange(token) ==
    /\ swap.edits < MaxEdits
    /\ swap' = [swap EXCEPT
                    !.fromToken = token,
                    !.toAmount = calculateToAmount(swap.fromAmount, token, swap.toToken),
                    !.edits = @ + 1]
    /\ UNCHANGED <<store, nextId, clock, calls, client, landing, url>>

handleToTokenChange(token) ==
    /\ swap.edits < MaxEdits
    /\ swap' = [swap EXCEPT
                    !.toToken = token,
                    !.toAmount = calculateToAmount(swap.fromAmount, swap.fromToken, token),
                    !.edits = @ + 1]
    /\ UNCHANGED <<store, nextId, clock, calls, client, landing, url>>

\* Each invocation of handleSwap or handleSwapTokens has at most one timer
\* pending.
TimerIndexes == 1..(MaxSwaps + MaxEdits)

\* The Swap button and the direction button, with their timers.
SwapNext ==
    \/ handleSwap
    \/ \E j \in TimerIndexes : SwapTimerFires(j)
    \/ \E j \in TimerIndexes : CompleteTimerFires(j)
    \/ handleSwapTokens
    \/ \E j \in TimerIndexes : RotateTimerFires(j)

SwapSpec == Init /\ [][SwapNext]_vars

\* The amount field, the two token selects and the direction button.
EditNext ==
    \/ \E value \in AmountsTyped : handleFromAmountChange(value)
    \/ \E token \in TokenSet : handleFromTokenChange(token)
    \/ \E token \in TokenSet : handleToTokenChange(token)
    \/ handleSwapTokens
    \/ \E j \in TimerIndexes : RotateTimerFires(j)

EditSpec == Init /\ [][EditNext]_vars

\* ---------------------------------------------------------------- buildUrl
\* Strings are sequences of one-character strings.
IsAt(s, sub, i) ==
    /\ i + Len(sub) - 1 <= Len(s)
    /\ SubSeq(s, i, i + Len(sub) - 1) = sub

\* String.prototype.indexOf, counted from 1; 0 when sub does not occur.
IndexOf(s, sub) ==
    IF \E i \in 1..Len(s) : IsAt(s, sub, i)
    THEN CHOOSE i \in 1..Len(s) :
            IsAt(s, sub, i) /\ \A k \in 1..(i - 1) : ~IsAt(s, sub, k)
    ELSE 0

\* String.prototype.includes
Includes(s, sub) == IndexOf(s, sub) # 0

\* String.prototype.replace with a string pattern: the first occurrence,
\* for a replacement without "$".
Replace(s, sub, by) ==
    LET i == IndexOf(s, sub)
    IN  IF i = 0 THEN s
        ELSE SubSeq(s, 1, i - 1) \o by \o SubSeq(s, i + Len(sub), Len(s))

\* String(value) of a JSON string or number.
StringOf(val) == val.v

\* params is absent.
Undefined == "undefined"

Param(key, val) == [key |-> key, val |-> val]

Paths ==
    { <<"/","a","p","i","/","u","s","e","r","s","/",":","i","d">>,
      <<"/","a","p","i","/","s","u","b","s","c","r","i","b","e","r","s">>,
      <<"/","u","/",":","i","d","x","/",":","i","d">>,
      <<"/","u","/",":","i","d","/",":","i","d">>,
      <<"/","u","/",":","i","d","/",":","n">> }

\* Object.entries(params), in insertion order.
ParamsGiven ==
    { Undefined,
      <<>>,
      <<Param(<<"i","d">>, JNumber(<<"1","2","3">>))>>,
      <<Param(<<"i","d">>, JString(<<"a","b">>))>>,
      <<Param(<<"n">>, JNumber(<<"5">>))>>,
      <<Param(<<"i","d">>, JNumber(<<"1">>)), Param(<<"n">>, JNumber(<<"2">>))>>,
      <<Param(<<"n">>, JNumber(<<"2">>)), Param(<<"i","d">>, JNumber(<<"1">>))>>,
      <<Param(<<"i","d","x">>, JNumber(<<"9">>))>>,
      <<Param(<<"i","d">>, JNumber(<<"1">>)), Param(<<"i","d","x">>, JNumber(<<"9">>))>>,
      <<Param(<<"i","d","x">>, JNumber(<<"9">>)), Param(<<"i","d">>, JNumber(<<"1">>))>> }

\* One iteration of forEach: if (url.includes(`:${key}`)) url = url.replace(...)
ReplacedEntry(u, entry) ==
    IF Includes(u, <<":">> \o entry.key)
    THEN Replace(u, <<":">> \o entry.key, StringOf(entry.val))
    ELSE u

\* buildUrl is called: let url = path; if (params) ...
buildUrl(path, params) ==
    /\ url.pc = "idle"
    /\ url' = [pc |-> IF params = Undefined THEN "return" ELSE "forEach",
               path |-> path, params |-> params, url |-> path, i |-> 1]
    /\ UNCHANGED <<store, nextId, clock, calls, client, landing, swap>>

ForEachEntry ==
    /\ url.pc = "forEach"
    /\ IF url.i <= Len(url.params)
       THEN url' = [url EXCEPT !.url = ReplacedEntry(@, url.params[url.i]),
                               !.i = @ + 1]
       ELSE url' = [url EXCEPT !.pc = "return"]
    /\ UNCHANGED <<store, nextId, clock, calls, client, landing, swap>>

\* return url
ReturnUrl ==
    /\ url.pc = "return"
    /\ url' = [url EXCEPT !.pc = "done"]
    /\ UNCHANGED <<store, nextId, clock, calls, client, landing, swap>>

UrlNext ==
    \/ \E path \in Paths, params \in ParamsGiven : buildUrl(path, params)
    \/ ForEachEntry
    \/ ReturnUrl

UrlSpec == Init /\ [][UrlNext]_vars

\* ============================================================== properties
\* The email strings a request carries: empty unless body.email is a string.
RequestEmails(c) ==
    {f.val.v : f \in {g \in calls[c].body : g.name = "email" /\ g.val.t = "string"}}

Emails == {EmailA, EmailUpperA, NotAnEmail}
ValidEmails == {e \in Emails : IsEmailFormat(e)}

CallsWith(e) == {c \in Calls : e \in RequestEmails(c)}

\* The storage call of c was rejected for a reason other than duplication.
Faulted(c) == calls[c].err.code = ConnectionFailureCode

Answer(c) == calls[c].responses[1]

\* C1: N >= 2 concurrent subscribe calls with the same valid email end with
\* exactly one Created (201) and N-1 ConflictError (409), and exactly one
\* stored record has that email.
C1_ConcurrentDuplicates ==
    \A e \in ValidEmails :
        LET S == CallsWith(e) IN
        ( /\ Cardinality(S) >= 2
          /\ \A c \in S : Terminal(c) /\ ~Faulted(c) )
        => /\ Cardinality({c \in S : calls[c].pc = "Created"}) = 1
           /\ \A c \in S :
                \/ calls[c].pc = "Created" /\ Answer(c).status = 201
                \/ calls[c].pc = "Conflicted" /\ Answer(c).status = 409
           /\ Cardinality(DbSelect(store, e)) = 1

\* C2: no two stored Subscriber records have the same email.
C2_UniqueEmail ==
    \A r1 \in store, r2 \in store : r1.email = r2.email => r1 = r2

\* C2 witness: a second insert of a stored email was attempted and refused.
C2_Witness ==
    \E c \in Calls :
        /\ calls[c].err.code = UniqueViolationCode
        /\ DbSelect(store, InputEmail(c)) # {}

\* C3: an insert rejected by the uniqueness constraint, after a lookup that
\* found nothing, ends with ConflictError (409, "Email already subscribed").
C3_UniqueViolationIsConflict ==
    \A c \in Calls :
        (calls[c].existing = {} /\ calls[c].err.code = UniqueViolationCode)
        => /\ calls[c].pc = "Conflicted"
           /\ calls[c].responses =
                <<[status |-> 409, body |-> [message |-> "Email already subscribed"]]>>

\* C4: a request whose email is a string that fails the email-format rule ends
\* with ValidationError: 400, a non-empty message, field = "email".
C4_MalformedEmailRejected ==
    \A c \in Calls :
        (Terminal(c) /\ \E e \in RequestEmails(c) : ~IsEmailFormat(e))
        => /\ calls[c].pc = "ValidationFailed"
           /\ Len(calls[c].responses) = 1
           /\ Answer(c).status = 400
           /\ Answer(c).body.message # ""
           /\ Answer(c).body.field = "email"

\* C5: a call that ends with ValidationError has invoked neither
\* getSubscriberByEmail nor createSubscriber, and the step that ends it leaves
\* the stored records and the id sequence as they were, for every such call.
C5_Step ==
    \A c \in Calls :
        calls'[c].pc = "ValidationFailed"
        => /\ calls'[c].lookups = 0
           /\ calls'[c].inserts = 0
           /\ calls[c].pc # "ValidationFailed" => (store' = store /\ nextId' = nextId)

\* C5: every step keeps a call that ends with ValidationError free of
\* storage calls and leaves the stored records unchanged when it ends one.
C5_ValidationErrorNoPersistence == [][C5_Step]_vars

\* C5 witness: the failing call was repeated against a non-empty store.
C5_Witness ==
    \E c \in Calls, d \in Calls :
        /\ c # d
        /\ calls[c].body = calls[d].body
        /\ calls[c].pc = "ValidationFailed"
        /\ calls[d].pc = "ValidationFailed"
        /\ store # {}

\* C6: with calls issued one after another on an initially empty store and a
\* working store, the first subscribe with a valid email e ends Created and
\* every later one with the same e ends ConflictError, whatever calls with
\* other emails come in between.
C6_FirstThenConflict ==
    \A e \in ValidEmails :
        (\A d \in CallsWith(e) : ~Faulted(d))
        => \A c \in CallsWith(e) :
              Terminal(c)
              => IF \E d \in CallsWith(e) : d < c
                 THEN calls[c].pc = "Conflicted" /\ Answer(c).status = 409
                 ELSE calls[c].pc = "Created" /\ Answer(c).status = 201

\* C6 witness: e, then another email, then e again.
C6_Witness ==
    \E e \in ValidEmails :
        \E c \in CallsWith(e), d \in Calls \ CallsWith(e), k \in CallsWith(e) :
            /\ c < d /\ d < k
            /\ calls[c].pc = "Created"
            /\ calls[d].pc = "Created"
            /\ calls[k].pc = "Conflicted"

\* C7: the step that ends a call with ConflictError answers 409 with message
\* "Email already subscribed", adds no record and leaves the record with
\* that email as it was.
C7_Step ==
    \A c \in Calls :
        (calls[c].pc # "Conflicted" /\ calls'[c].pc = "Conflicted")
        => /\ calls'[c].responses =
                <<[status |-> 409, body |-> [message |-> "Email already subscribed"]]>>
           /\ store' = store
           /\ nextId' = nextId
           /\ Cardinality(DbSelect(store', InputEmail(c))) = 1
           /\ DbSelect(store', InputEmail(c)) = calls[c].existing

\* C7: every step that ends a call with ConflictError answers 409 "Email
\* already subscribed" and leaves the stored records unchanged.
C7_ConflictChangesNothing == [][C7_Step]_vars

\* C7 witness: a call has ended with ConflictError.
C7_Witness ==
    \E c \in Calls : calls[c].pc = "Conflicted" /\ calls[c].existing \subseteq store

\* C8: an insert for an email that no record has adds exactly one record with
\* the request's email, an id no stored record has and createdAt the current
\* time, and the call answers 201 with that record.
C8_Step ==
    \A c \in Calls :
        ( /\ calls[c].pc = "Checked"
          /\ calls'[c].inserts = calls[c].inserts + 1
          /\ calls'[c].err.code # ConnectionFailureCode
          /\ DbSelect(store, InputEmail(c)) = {} )
        => \E r \in store' :
              /\ r \notin store
              /\ store' = store \cup {r}
              /\ r.email = InputEmail(c)
              /\ r.email \in RequestEmails(c)
              /\ \A q \in store : q.id # r.id
              /\ r.createdAt = clock'
              /\ \A q \in store : q.createdAt <= r.createdAt
              /\ calls'[c].pc = "Created"
              /\ calls'[c].responses = <<[status |-> 201, body |-> r]>>

\* C8: every insert for an email no record has adds exactly one fresh record
\* and answers 201 with it.
C8_CreateAddsOneFreshRecord == [][C8_Step]_vars

\* C8 witness: a record was created next to an earlier one.
C8_Witness ==
    \E c \in Calls :
        /\ calls[c].pc = "Created"
        /\ Answer(c).body \in store
        /\ Cardinality(store) >= 2

C10_AllStagesBeforeOutcome ==
    \A c \in Calls :
        Terminal(c) => calls[c].stages = <<"Received", "Validated", "Checked">>

\* C10 as amended: the stages are passed in the order Received, Validated,
\* Checked, as far as the call gets: ValidationFailed follows Received,
\* InternalFailed follows Validated or Checked, Created and Conflicted follow
\* Checked.  A call in an outcome has exactly one response and never changes
\* again, and every received call eventually is in an outcome.
AllowedNext(pc) ==
    CASE pc = "Idle" -> {"Received"}
      [] pc = "Received" -> {"Validated", "ValidationFailed"}
      [] pc = "Validated" -> {"Checked", "InternalFailed"}
      [] pc = "Checked" -> {"Created", "Conflicted", "InternalFailed"}
      [] OTHER -> {}

C10_Step ==
    \A c \in Calls :
        /\ calls'[c].pc # calls[c].pc => calls'[c].pc \in AllowedNext(calls[c].pc)
        /\ Terminal(c) => calls'[c] = calls[c]
        /\ Len(calls'[c].responses) = IF calls'[c].pc \in Outcomes THEN 1 ELSE 0
        /\ calls'[c].pc \in Stages
           => calls'[c].stages =
                 CASE calls'[c].pc = "Received" -> <<"Received">>
                   [] calls'[c].pc = "Validated" -> <<"Received", "Validated">>
                   [] calls'[c].pc = "Checked" -> <<"Received", "Validated", "Checked">>

\* C10 (amended): the stages come in order, an outcome is final and has one
\* response, and every received call eventually is in an outcome.
C10_StagesThenOneOutcome ==
    /\ [][C10_Step]_vars
    /\ \A c \in Calls : (calls[c].pc # "Idle") ~> Terminal(c)

\* C10 witness: one call has ended without being Validated and another
\* without being Checked.
C10_Witness ==
    /\ \E c \in Calls : calls[c].pc = "ValidationFailed" /\ calls[c].stages = <<"Received">>
    /\ \E c \in Calls : calls[c].pc = "InternalFailed" /\ calls[c].stages = <<"Received", "Validated">>

\* C11: two calls with different valid emails both end Created, whatever the
\* order and the interleaving, and their records have different ids.
C11_DistinctEmailsIndependent ==
    \A e1 \in ValidEmails, e2 \in ValidEmails :
        \A c \in CallsWith(e1), d \in CallsWith(e2) :
            ( /\ e1 # e2
              /\ CallsWith(e1) = {c} /\ CallsWith(e2) = {d}
              /\ Terminal(c) /\ ~Faulted(c)
              /\ Terminal(d) /\ ~Faulted(d) )
            => /\ calls[c].pc = "Created" /\ Answer(c).status = 201
               /\ calls[d].pc = "Created" /\ Answer(d).status = 201
               /\ Answer(c).body.id # Answer(d).body.id

\* C11 witness: the later call was Created first.
C11_Witness ==
    \E c \in Calls, d \in Calls :
        /\ c < d
        /\ RequestEmails(c) = {EmailA} /\ RequestEmails(d) = {EmailUpperA}
        /\ calls[c].pc = "Created" /\ calls[d].pc = "Created"
        /\ Answer(d).body.id < Answer(c).body.id

\* C12: stored records have pairwise distinct ids, every id in use is below
\* the sequence, and a new record takes an id that is at least the sequence
\* value, so no id is given out twice, rejected inserts included.
C12_Step ==
    /\ \A r1 \in store', r2 \in store' : r1.id = r2.id => r1 = r2
    /\ \A r \in store' : r.id < nextId'
    /\ \A r \in store' \ store : r.id >= nextId
    /\ nextId' >= nextId

\* C12: every step keeps ids distinct and never reuses one.
C12_IdsNeverReused == [][C12_Step]_vars

\* C12 witness: a record was created after an insert was rejected, leaving a
\* gap in the ids.
C12_Witness ==
    /\ Cardinality(store) = 2
    /\ \E r \in store : r.id = 3
    /\ \E c \in Calls : calls[c].err.code = UniqueViolationCode

\* C13: every record in the store stays in it, with the same id, email and
\* createdAt, in every step.
C13_Step == \A r \in store : r \in store'

\* C13: the set of stored records only grows.
C13_RecordsImmutable == [][C13_Step]_vars

\* C13 witness: calls of every outcome have run against a stored record.
C13_Witness ==
    /\ store # {}
    /\ \E c \in Calls : calls[c].pc = "Conflicted"
    /\ \E c \in Calls : calls[c].pc = "InternalFailed"

\* C15: a call invokes getSubscriberByEmail at most once and createSubscriber
\* at most once, and createSubscriber only after the lookup.
C15_NoInternalRetry ==
    \A c \in Calls :
        /\ calls[c].lookups <= 1
        /\ calls[c].inserts <= 1
        /\ calls[c].inserts = 1 => calls[c].lookups = 1

\* C15 witness: a lookup has failed and an insert has failed, and both calls
\* have ended.
C15_Witness ==
    /\ \E c \in Calls : Terminal(c) /\ Faulted(c) /\ calls[c].inserts = 0
    /\ \E c \in Calls : Terminal(c) /\ calls[c].err.code = UniqueViolationCode

\* C18: an email is stored exactly when a call with that email has ended
\* Created; the stored records are the bodies of the 201 responses, so a
\* call of any other outcome has added none.
C18_StoredIffCreated ==
    LET created == {c \in Calls : calls[c].pc = "Created"} IN
    /\ store = {Answer(c).body : c \in created}
    /\ Cardinality(store) = Cardinality(created)
    /\ \A c \in created : Answer(c).body.email = InputEmail(c)
    /\ \A e \in Emails :
          DbSelect(store, e) # {} <=> \E c \in created : InputEmail(c) = e

\* C18 witness: calls have ended with each of the three failures and one
\* record is stored.
C18_Witness ==
    /\ Cardinality(store) = 1
    /\ \E c \in Calls : calls[c].pc = "Created"
    /\ \E c \in Calls : calls[c].pc \in {"Conflicted", "ValidationFailed"}
    /\ \E c \in Calls : calls[c].pc = "InternalFailed"

\* The request with every field but email removed.
EmailOnly(body) == {f \in body : f.name = "email"}

\* C20: the parsed input of a request is the one of the same request without
\* its extra fields and holds the email only; the record an insert adds has
\* its id from the sequence and its createdAt from the database's clock,
\* whatever the body says, and the call's outcome has no other source.
C20_Step ==
    /\ \A body \in ExtraBodies : ParseInput(body) = ParseInput(EmailOnly(body))
    /\ \A c \in Calls :
          /\ calls'[c].input \subseteq {[email |-> e] : e \in RequestEmails(c)}
          /\ (calls[c].pc = "Checked" /\ calls'[c].pc = "Created")
             => /\ store' = store \cup {[id |-> nextId,
                                         email |-> InputEmail(c),
                                         createdAt |-> clock']}
                /\ Answer(c)'.body.id = nextId

\* C20: in every step, fields other than email reach neither the parsed
\* input nor the stored record.
C20_ExtraFieldsIgnored == [][C20_Step]_vars

\* C20 witness: a request that carried an id of its own was stored under the
\* sequence's id.
C20_Witness ==
    \E c \in Calls :
        /\ HasField(calls[c].body, "id")
        /\ calls[c].pc = "Created"
        /\ Answer(c).body.id # NumberOf(GetField(calls[c].body, "id").v)
        /\ Answer(c).body \in store

\* C14: within one mutate() the page sends the request again only after an
\* InternalError answer (500); after a 400 or a 409 answer, or when its own
\* schema check failed, it sends nothing further.
C14_RetryOnlyAfterInternalError ==
    /\ \A k \in 1..Len(client.answers) :
          client.answers[k].status \in {400, 409} => Len(client.sent) = k
    /\ \A k \in 2..Len(client.sent) : client.answers[k - 1].status = 500
    /\ ~ParseInput(client.variables).ok => Len(client.sent) = 0

C21_ExactMatchOnly ==
    /\ \A c \in Calls, e \in ValidEmails :
          ( /\ RequestEmails(c) = {e}
            /\ Terminal(c) /\ ~Faulted(c)
            /\ \A d \in Calls : d < c => e \notin RequestEmails(d)
            /\ \E d \in Calls : d < c /\ calls[d].pc = "Created"
                                  /\ Lower(InputEmail(d)) = Lower(e) )
          => calls[c].pc = "Created" /\ Answer(c).status = 201
    /\ \A e \in Emails :
          (DbSelect(store, e) # {}) <=> UniqueViolation(store, e)

\* C21 witness: a@example.com was Created, then A@example.com was Created.
C21_Witness ==
    \E c \in Calls, d \in Calls :
        /\ c < d
        /\ RequestEmails(c) = {EmailA} /\ RequestEmails(d) = {EmailUpperA}
        /\ calls[c].pc = "Created" /\ calls[d].pc = "Created"
        /\ {r.email : r \in store} = {EmailA, EmailUpperA}

\* C22: when the data given to mutate() fails the shared schema, running
\* mutationFn sends nothing: no request is counted or received, the store
\* is as it was, and the mutation ends in error with the ZodError.
C22_Step ==
    /\ (client.pc = "run" /\ client' # client
           /\ ~ParseInput(client.variables).ok)
       => /\ client'.sent = <<>> /\ client'.requests = client.requests
          /\ calls' = calls /\ store' = store
          /\ \/ client'.pc = "run" /\ client'.status = "pending"
             \/ client'.status = "error" /\ client'.error.name = "ZodError"
    /\ ~ParseInput(client'.variables).ok => client'.answers = <<>>

C22_NoRequestOnSchemaFailure == [][C22_Step]_vars

\* C22 witness: a mutate() with data that fails the schema has ended in
\* error, after its retry, with no request sent.
C22_Witness ==
    /\ client.mutations = 1
    /\ ~ParseInput(client.variables).ok
    /\ client.status = "error" /\ client.error.name = "ZodError"
    /\ client.failureCount = MutationRetry + 1
    /\ client.requests = 0
    /\ \A c \in Calls : calls[c].pc = "Idle"

\* C23: the Landing form never issues a mutate() while its mutation is in
\* flight, nor with an empty email field: a step that starts a mutation
\* starts from a mutation that is not pending and from a non-empty field,
\* whose text it submits; and a mutation is in flight only while isPending
\* disables the form.
C23_Step ==
    /\ client'.mutations # client.mutations
       => /\ client.status # "pending" /\ client.pc = "idle"
          /\ landing.email # <<>>
          /\ client'.variables = {Field("email", JString(landing.email))}
          /\ client'.mutations = client.mutations + 1
    /\ client'.pc # "idle" <=> (client'.status = "pending" /\ FormDisabled')

C23_OneMutationInFlight == [][C23_Step]_vars

\* C23 witness: the second submission of the form is in flight, the first
\* has ended.
C23_Witness ==
    /\ client.mutations = 2
    /\ client.pc = "fetching"
    /\ Len(client.toasts) = 1
    /\ FormDisabled

\* C24: a mutation started from the form ends with exactly one toast, the
\* success toast or the error toast; the email field is cleared by the step
\* that ends it in success and is the submitted text after the step that
\* ends it in error; and every pending mutation eventually ends.
C24_Step ==
    /\ (client.status = "pending" /\ client'.status = "success")
       => /\ landing'.email = <<>>
          /\ client'.toasts = Append(client.toasts, SuccessToast)
    /\ (client.status = "pending" /\ client'.status = "error")
       => /\ landing'.email = landing.email
          /\ landing'.email = GetField(client.variables, "email").v
          /\ client'.toasts = Append(client.toasts, ErrorToast(client'.error))
    /\ (client.status = "pending" /\ client'.status = "pending")
       => landing' = landing /\ client'.toasts = client.toasts
    /\ Len(client'.toasts)
         = client'.mutations - (IF client'.status = "pending" THEN 1 ELSE 0)

C24_MutationEndsWithOneToast ==
    /\ [][C24_Step]_vars
    /\ (client.status = "pending") ~> (client.status \in {"success", "error"})

\* C24 witness: one submission failed and kept its text, the next succeeded
\* and cleared the field.
C24_Witness ==
    /\ client.status = "success"
    /\ Len(client.toasts) = 2
    /\ client.toasts[1].title = "Error"
    /\ client.toasts[2] = SuccessToast
    /\ landing.email = <<>>

\* C25: after handleSwap, swapping is true until the invocation's first
\* timer fires, then swapping is false and complete is true until its second
\* timer fires, and with no timer of handleSwap pending both are false.
C25_PhasesFollowTimers ==
    /\ \A j \in 1..Len(swap.timers) :
          /\ swap.timers[j].kind = "swap" => swap.swapping
          /\ swap.timers[j].kind = "complete"
                => ~swap.swapping /\ swap.complete
    /\ (\A j \in 1..Len(swap.timers) : swap.timers[j].kind = "rotate")
          => ~swap.swapping /\ ~swap.complete

\* C26: the loading overlay and the completion overlay are never shown
\* together.
C26_NeverBothOverlays == ~(swap.swapping /\ swap.complete)

\* Amounts that are not a number, or a number that is not greater than zero.
NotPositiveAmounts == { <<>>, <<"0">>, <<"-","1">>, <<"a","b","c">> }

\* toAmount is the calculation on the three values as they now are.
ToAmountIsCalculated(sw) ==
    /\ sw.toAmount = calculateToAmount(sw.fromAmount, sw.fromToken, sw.toToken)
    /\ sw.fromAmount \in NotPositiveAmounts => sw.toAmount = <<"0">>

\* C27: each of handleFromAmountChange, handleFromTokenChange and
\* handleToTokenChange sets its value, leaves the other two as they were and
\* leaves toAmount equal to calculateToAmount of the three new values, which
\* is "0" when the amount is not a number above zero.
C27_Step ==
    /\ \A value \in AmountsTyped :
          handleFromAmountChange(value)
          => /\ swap'.fromAmount = value
             /\ swap'.fromToken = swap.fromToken /\ swap'.toToken = swap.toToken
             /\ ToAmountIsCalculated(swap')
    /\ \A token \in TokenSet :
          handleFromTokenChange(token)
          => /\ swap'.fromToken = token
             /\ swap'.fromAmount = swap.fromAmount /\ swap'.toToken = swap.toToken
             /\ ToAmountIsCalculated(swap')
    /\ \A token \in TokenSet :
          handleToTokenChange(token)
          => /\ swap'.toToken = token
             /\ swap'.fromAmount = swap.fromAmount /\ swap'.fromToken = swap.fromToken
             /\ ToAmountIsCalculated(swap')

C27_ToAmountFollowsInputs == [][C27_Step]_vars

\* C27 witness: the from token was changed, then an amount below zero was
\* typed.
C27_Witness ==
    /\ swap.edits = 2
    /\ swap.fromToken = "JUP" /\ swap.toToken = "USDC"
    /\ swap.fromAmount = <<"-","1">>
    /\ swap.toAmount = <<"0">>

\* C28: handleSwapTokens exchanges the tokens and the amounts, sets
\* isRotating and touches neither swapping nor complete; applied twice it
\* gives back the tokens and amounts it started from.
C28_Step ==
    /\ handleSwapTokens
       => /\ swap'.fromToken = swap.toToken /\ swap'.toToken = swap.fromToken
          /\ swap'.fromAmount = swap.toAmount /\ swap'.toAmount = swap.fromAmount
          /\ swap'.isRotating
          /\ swap'.swapping = swap.swapping /\ swap'.complete = swap.complete
    /\ LET twice == SwappedTokens(SwappedTokens(swap))
       IN  /\ twice.fromToken = swap.fromToken /\ twice.toToken = swap.toToken
           /\ twice.fromAmount = swap.fromAmount
           /\ twice.toAmount = swap.toAmount

C28_SwapTokensIsInvolution == [][C28_Step]_vars

\* C28 witness: handleSwapTokens ran twice in a row from the initial state.
C28_Witness ==
    /\ swap.edits = 2
    /\ Len(swap.timers) = 2
    /\ swap.isRotating
    /\ swap.fromToken = "SOL" /\ swap.toToken = "USDC"
    /\ swap.fromAmount = <<"4","2",".","5">>
    /\ swap.toAmount = <<"4","2","0","0">>

\* The segments of a path between its "/" characters.
RECURSIVE Segments(_)
Segments(s) ==
    LET i == IndexOf(s, <<"/">>)
    IN  IF i = 0 THEN <<s>>
        ELSE <<SubSeq(s, 1, i - 1)>> \o Segments(SubSeq(s, i + 1, Len(s)))

RECURSIVE JoinSlash(_)
JoinSlash(segs) ==
    IF Len(segs) = 1 THEN segs[1]
    ELSE segs[1] \o <<"/">> \o JoinSlash(Tail(segs))

\* The path with every segment that is the placeholder of a key of params
\* replaced by String(value), and every other segment as it is.
WithPlaceholdersFilled(path, params) ==
    LET entries == IF params = Undefined THEN <<>> ELSE params
        Filled(seg) ==
            IF \E k \in 1..Len(entries) : seg = <<":">> \o entries[k].key
            THEN StringOf(entries[CHOOSE k \in 1..Len(entries) :
                                      seg = <<":">> \o entries[k].key].val)
            ELSE seg
        segs == Segments(path)
    IN  JoinSlash([k \in 1..Len(segs) |-> Filled(segs[k])])

\* C29: buildUrl returns the path with each placeholder whose key is in
\* params replaced by String(value) and everything else, the placeholders
\* of other keys included, as it was.
C29_BuildUrlFillsPlaceholders ==
    url.pc = "done" => url.url = WithPlaceholdersFilled(url.path, url.params)
====
